---- MODULE Spec2Model ----
(***************************************************************************)
(* supers: the per-program supervisor worker of src/src/programs.rs        *)
(* (pgm_thread running run_state_machine), its command mailbox, the child  *)
(* processes it spawns, polls and kills, and the shared status registry    *)
(* (ApplicationState.programs).                                            *)
(***************************************************************************)
EXTENDS Integers, Sequences, FiniteSets, TLC

\* ------------------------------------------------------------------ bounds
\* Children the workers may spawn in total before spawning steps are disabled.
MaxSpawns == 2
\* Commands the holders of the senders may enqueue externally in total.
MaxSends == 2

\* ----------------------------------------------------------- configuration
\* The configured programs (ProgramConfig.name).
Programs == {"sleep3", "echo"}

\* enum RestartPolicy
RestartPolicy == {"Always", "Never", "OnError"}

\* enum CommandMsg
CommandMsg == {"Start", "Stop", "Restart"}

\* enum ProgramStatus; the registry variable holds "absent" for a key that
\* was never written.
ProgramStatus == {"Running", "Stopped"}

\* What an OS child process can be: running, exited with its status not yet
\* collected, exited with its status collected by try_wait (the Child caches
\* it), or killed by the supervisor.
ProcState == {"alive", "exited_ok", "exited_err", "reaped_ok", "reaped_err", "killed"}

Reaped == {"reaped_ok", "reaped_err"}

\* The value recv_timeout yields when it times out (msg = None).
NoMsg == [cmd |-> "none", by |-> "none", id |-> 0]

VARIABLES
    policy,         \* program_config.restartpolicy of each program
    worker,         \* "running", or the error pgm_thread returned with
    current_child,  \* pgm_thread's current_child: 0 is None, i > 0 is procs[p][i]
    procs,          \* the children each worker has spawned, in spawn order
    mailbox,        \* the unbounded command channel of each worker
    nsent,          \* messages ever sent on each channel (gives each its id)
    ext_sent,       \* commands enqueued externally so far, on all channels
    programs,       \* ApplicationState.programs, the status registry
    seen_stopped,   \* history: the entry was Stopped since the worker's last spawn
    ext_after_exit, \* history: an external Start/Restart came after the last first-observed exit
    exit_sends,     \* history: Starts self-enqueued while handling the current child's exit
    last,           \* history: what the most recent action did
    handler,        \* the HTTP request being handled under the registry lock, if any
    startup,        \* start_program_threads: its input, loop position and results
    pc,             \* where each worker is inside its step when the step is split
    ext_starts      \* history: Start and Restart commands enqueued externally, per mailbox

vars == <<policy, worker, current_child, procs, mailbox, nsent, ext_sent,
          programs, seen_stopped, ext_after_exit, exit_sends, last, handler,
          startup, pc, ext_starts>>

\* Children spawned so far by all workers.
RECURSIVE SpawnedIn(_)
SpawnedIn(S) ==
    IF S = {} THEN 0
    ELSE LET p == CHOOSE x \in S : TRUE IN Len(procs[p]) + SpawnedIn(S \ {p})

CanSpawn == SpawnedIn(Programs) < MaxSpawns

\* ------------------------------------------------------------ the registry
\* A registry write that overwrites the entry of every program.
update_pgm_status_AllEntries(app_state, pgm_name, status) ==
    [q \in DOMAIN app_state |-> status]

\* A registry write that removes the entry when the program stops.
update_pgm_status_DropsStopped(app_state, pgm_name, status) ==
    [app_state EXCEPT ![pgm_name] = IF status = "Stopped" THEN "absent" ELSE status]

\* update_pgm_status: insert or overwrite the entry of pgm_name.
update_pgm_status(app_state, pgm_name, status) ==
    [app_state EXCEPT ![pgm_name] = status]

\* ------------------------------------------------------------- the mailbox
\* Sender::send on the unbounded channel: the message goes to the back.
send(q, m) == Append(q, m)

\* A mailbox that hands out its newest message first.
recv_timeout_lifo(q) ==
    IF q = <<>> THEN <<NoMsg, <<>>>>
    ELSE <<q[Len(q)], SubSeq(q, 1, Len(q) - 1)>>

\* cmd_rx.recv_timeout(WAIT_TIMEOUT).ok(): the message at the front if there
\* is one, None after the timeout otherwise; with what stays queued.
recv_timeout(q) ==
    IF q = <<>> THEN <<NoMsg, <<>>>>
    ELSE <<Head(q), Tail(q)>>

\* ------------------------------------------------------- the child adapter
ExitCode(s) == IF s \in {"exited_ok", "reaped_ok"} THEN "ok" ELSE "err"

\* A poll that never notices an exit: a child not yet collected is Alive.
get_child_status_MissesExit(h, ps) ==
    IF h = 0 THEN {[status |-> "NoChild", code |-> "none", procs |-> ps]}
    ELSE IF ps[h] \in Reaped
         THEN {[status |-> "Exited", code |-> ExitCode(ps[h]), procs |-> ps]}
    ELSE {[status |-> "Alive", code |-> "none", procs |-> ps]}

\* A poll that reports Alive when there is no handle.
get_child_status_AliveWithoutHandle(h, ps) ==
    IF h = 0 \/ ps[h] = "alive"
    THEN {[status |-> "Alive", code |-> "none", procs |-> ps]}
    ELSE {[status |-> "Exited", code |-> ExitCode(ps[h]), procs |-> ps]}

\* get_child_status: NoChild without a handle; otherwise try_wait, which
\* returns the cached status of a child already collected, collects the
\* status of one that exited, reports a running one Alive, or fails.
get_child_status(h, ps) ==
    IF h = 0 THEN {[status |-> "NoChild", code |-> "none", procs |-> ps]}
    ELSE IF ps[h] \in Reaped
         THEN {[status |-> "Exited", code |-> ExitCode(ps[h]), procs |-> ps]}
    ELSE IF ps[h] = "alive"
         THEN {[status |-> "Alive", code |-> "none", procs |-> ps],
               [status |-> "Error", code |-> "none", procs |-> ps]}
    ELSE {[status |-> "Exited", code |-> ExitCode(ps[h]),
           procs |-> [ps EXCEPT ![h] = IF ps[h] = "exited_ok" THEN "reaped_ok"
                                                              ELSE "reaped_err"]],
          [status |-> "Error", code |-> "none", procs |-> ps]}

\* What one arm of the match does: the handle it returns, the process table,
\* the registry write, the commands sent on cmd_tx, the error it returns with.
Outcome(h, ps, write, sends, err, spawned, killed) ==
    [child |-> h, procs |-> ps, write |-> write, sends |-> sends, err |-> err,
     spawned |-> spawned, killed |-> killed]

Keep(h, ps) == Outcome(h, ps, "none", <<>>, "none", FALSE, FALSE)

\* start_child_program: the new child, or ProgramProcessSpawnError.
start_child_program(ps) == Append(ps, "alive")

\* ---------------------------------------------- run_state_machine, by arm
\* (NoChild, None)
NoChild_None(h, ps) == {Keep(h, ps)}

\* (NoChild, Start) that spawns without writing the registry.
NoChild_Start_NoStatus(h, ps) ==
    IF ~CanSpawn THEN {}
    ELSE {Outcome(Len(ps) + 1, start_child_program(ps), "none", <<>>, "none", TRUE, FALSE),
          Outcome(0, ps, "none", <<>>, "spawn_error", FALSE, FALSE)}

\* (NoChild, Start) that swallows a spawn error and carries on without a
\* child.
NoChild_Start_SpawnErrorSwallowed(h, ps) ==
    IF ~CanSpawn THEN {}
    ELSE {Outcome(Len(ps) + 1, start_child_program(ps), "Running", <<>>, "none", TRUE, FALSE),
          Outcome(0, ps, "Running", <<>>, "none", FALSE, FALSE)}

\* (NoChild, Start): write Running, then spawn; a spawn error returns after
\* the write.
NoChild_Start(h, ps) ==
    IF ~CanSpawn THEN {}
    ELSE {Outcome(Len(ps) + 1, start_child_program(ps), "Running", <<>>, "none", TRUE, FALSE),
          Outcome(0, ps, "Running", <<>>, "spawn_error", FALSE, FALSE)}

\* (NoChild, Stop | Restart) that treats the command as a Start.
NoChild_StopRestart_AsStart(h, ps) == NoChild_Start(h, ps)

\* (NoChild, Stop | Restart)
NoChild_StopRestart(h, ps) == {Keep(h, ps)}

\* (Alive, None)
Alive_None(h, ps) == {Keep(h, ps)}

\* (Alive, Start) that starts a child as if there were none.
Alive_Start_Respawn(h, ps) == NoChild_Start(h, ps)

\* (Alive, Start)
Alive_Start(h, ps) == {Keep(h, ps)}

\* (Alive, Stop) that writes Stopped and leaves the child running and held.
Alive_Stop_WriteOnly(h, ps) ==
    {Outcome(h, ps, "Stopped", <<>>, "none", FALSE, FALSE)}

\* (Alive, Stop): kill; on success write Stopped and return None; a kill
\* error returns before the write.
Alive_Stop(h, ps) ==
    {Outcome(0, [ps EXCEPT ![h] = "killed"], "Stopped", <<>>, "none", FALSE, TRUE),
     Outcome(h, ps, "none", <<>>, "kill_error", FALSE, FALSE)}

\* (Alive, Restart) that spawns the new child at once and forgets the kill.
Alive_Restart_NoKill(h, ps) ==
    IF ~CanSpawn THEN {}
    ELSE {Outcome(Len(ps) + 1, start_child_program(ps), "Running", <<>>, "none", TRUE, FALSE)}

\* (Alive, Restart) that kills the child and spawns the new one in the step,
\* as the action list [KillChild, SpawnChild] does.
Alive_Restart_KillsAndSpawns(h, ps) ==
    IF ~CanSpawn THEN {}
    ELSE {Outcome(Len(ps) + 1, start_child_program([ps EXCEPT ![h] = "killed"]),
                  "none", <<>>, "none", TRUE, TRUE)}

\* (Alive, Restart): send Stop and Start to the own mailbox, keep the child.
Alive_Restart(h, ps) ==
    {Outcome(h, ps, "none", <<"Stop", "Start">>, "none", FALSE, FALSE)}

\* A policy under which Never restarts as Always does.
ApplyPolicy_NeverRestarts(pol, code) ==
    IF pol \in {"Always", "Never"} THEN <<"Start">>
    ELSE IF code # "ok" THEN <<"Start">> ELSE <<>>

\* A policy under which OnError restarts whatever the exit status.
ApplyPolicy_IgnoresCode(pol, code) ==
    IF pol = "Never" THEN <<>> ELSE <<"Start">>

\* A policy that enqueues the restart twice.
ApplyPolicy_Twice(pol, code) ==
    IF pol = "Always" THEN <<"Start", "Start">>
    ELSE IF pol = "Never" THEN <<>>
    ELSE IF code # "ok" THEN <<"Start", "Start">> ELSE <<>>

\* A policy under which Never restarts after a failure, as OnError does.
ApplyPolicy_NeverAsOnError(pol, code) ==
    IF pol = "Always" THEN <<"Start">>
    ELSE IF code # "ok" THEN <<"Start">> ELSE <<>>

\* The restart policy applied to an exit: the commands it enqueues.
ApplyPolicy(pol, code) ==
    IF pol = "Always" THEN <<"Start">>
    ELSE IF pol = "Never" THEN <<>>
    ELSE IF code # "ok" THEN <<"Start">> ELSE <<>>

\* (Exited, None) that leaves the registry alone.
Exited_None_NoStatus(pol, code, h, ps) ==
    {Outcome(h, ps, "none", ApplyPolicy(pol, code), "none", FALSE, FALSE)}

\* (Exited(code), None): write Stopped, apply the policy, keep the child.
Exited_None(pol, code, h, ps) ==
    {Outcome(h, ps, "Stopped", ApplyPolicy(pol, code), "none", FALSE, FALSE)}

\* (Exited, Stop): the command is ignored, the child kept.
Exited_Stop(h, ps) == {Keep(h, ps)}

\* (Exited, Start | Restart) that resets the child and re-sends nothing.
Exited_StartRestart_NoResend(h, ps) ==
    {Outcome(0, ps, "none", <<>>, "none", FALSE, FALSE)}

\* (Exited, Start | Restart) that re-sends the Start twice.
Exited_StartRestart_ResendsTwice(h, ps) ==
    {Outcome(0, ps, "none", <<"Start", "Start">>, "none", FALSE, FALSE)}

\* (Exited, Start | Restart): re-send Start and return None.
Exited_StartRestart(h, ps) ==
    {Outcome(0, ps, "none", <<"Start">>, "none", FALSE, FALSE)}

\* run_state_machine: the arm of match (status, msg).
run_state_machine(pol, status, code, cmd, h, ps) ==
    CASE status = "NoChild" /\ cmd = "none"  -> NoChild_None(h, ps)
      [] status = "NoChild" /\ cmd = "Start" -> NoChild_Start(h, ps)
      [] status = "NoChild" /\ cmd \in {"Stop", "Restart"} -> NoChild_StopRestart(h, ps)
      [] status = "Alive" /\ cmd = "none"    -> Alive_None(h, ps)
      [] status = "Alive" /\ cmd = "Start"   -> Alive_Start(h, ps)
      [] status = "Alive" /\ cmd = "Stop"    -> Alive_Stop(h, ps)
      [] status = "Alive" /\ cmd = "Restart" -> Alive_Restart(h, ps)
      [] status = "Exited" /\ cmd = "none"   -> Exited_None(pol, code, h, ps)
      [] status = "Exited" /\ cmd = "Stop"   -> Exited_Stop(h, ps)
      [] status = "Exited" /\ cmd \in {"Start", "Restart"} -> Exited_StartRestart(h, ps)

\* The messages a step sends on its own cmd_tx, numbered after the n sent so far.
SelfMsgs(sends, n) ==
    [i \in 1..Len(sends) |-> [cmd |-> sends[i], by |-> "self", id |-> n + i]]

\* No request is being handled.
Idle == [pc |-> "idle", name |-> "none", cmd |-> "none"]

\* The worker is between two iterations of its loop.
AtLoop == [at |-> "loop", msg |-> NoMsg]

\* ---------------------------------------------------------------- startup
\* Programs a configuration may list.
MaxConfigs == 3

\* The channel created by unbounded() in iteration i of the loop is named i;
\* 0 in send_channels is a name without an entry.
NoChannels == [n \in Programs |-> 0]

\* start_program_threads has returned Ok for the configuration sleep3, echo.
Started ==
    [app_config |-> <<"sleep3", "echo">>, i |-> 3, pc |-> "done",
     handles |-> <<[name |-> "sleep3", rx |-> 1], [name |-> "echo", rx |-> 2]>>,
     send_channels |-> [n \in Programs |-> IF n = "sleep3" THEN 1 ELSE 2]]

\* ------------------------------------------------------------------- Init
\* start_program_threads: one empty mailbox and one worker without a child
\* per program; the registry starts with no entry.
Init ==
    /\ policy \in [Programs -> RestartPolicy]
    /\ worker = [p \in Programs |-> "running"]
    /\ current_child = [p \in Programs |-> 0]
    /\ procs = [p \in Programs |-> <<>>]
    /\ mailbox = [p \in Programs |-> <<>>]
    /\ nsent = [p \in Programs |-> 0]
    /\ ext_sent = 0
    /\ programs = [p \in Programs |-> "absent"]
    /\ seen_stopped = [p \in Programs |-> FALSE]
    /\ ext_after_exit = [p \in Programs |-> FALSE]
    /\ ext_starts = [p \in Programs |-> 0]
    /\ exit_sends = [p \in Programs |-> [policy |-> 0, resend |-> 0]]
    /\ last = [kind |-> "init", p |-> "none", status |-> "none", code |-> "none",
               msg |-> NoMsg, err |-> "none"]
    /\ handler = Idle
    /\ startup = Started
    /\ pc = [p \in Programs |-> AtLoop]

\* ---------------------------------------------------------------- actions
\* A holder of the program's sender (the Command Gateway entry) enqueues a
\* command; the send fails once the worker has returned and dropped cmd_rx.
Send(p, c) ==
    /\ ext_sent < MaxSends
    /\ ext_sent' = ext_sent + 1
    /\ IF worker[p] = "running"
       THEN /\ mailbox' = [mailbox EXCEPT
                    ![p] = send(@, [cmd |-> c, by |-> "ext", id |-> nsent[p] + 1])]
            /\ nsent' = [nsent EXCEPT ![p] = @ + 1]
       ELSE UNCHANGED <<mailbox, nsent>>
    /\ ext_after_exit' = [ext_after_exit EXCEPT
            ![p] = @ \/ (worker[p] = "running" /\ c \in {"Start", "Restart"})]
    /\ ext_starts' = [ext_starts EXCEPT
            ![p] = IF worker[p] = "running" /\ c \in {"Start", "Restart"} THEN @ + 1 ELSE @]
    /\ last' = [kind |-> "send", p |-> p, status |-> "none", code |-> "none",
                msg |-> [cmd |-> c, by |-> "ext", id |-> nsent[p] + 1],
                err |-> IF worker[p] = "running" THEN "none" ELSE "send_error"]
    /\ UNCHANGED <<pc, startup, handler, policy, worker, current_child, procs, programs, seen_stopped,
                   exit_sends>>

\* A running child exits on its own, with success or with failure.
ChildExit(p, i, code) ==
    /\ i \in 1..Len(procs[p])
    /\ procs[p][i] = "alive"
    /\ procs' = [procs EXCEPT ![p][i] = IF code = "ok" THEN "exited_ok" ELSE "exited_err"]
    /\ last' = [kind |-> "exit", p |-> p, status |-> "none", code |-> code,
                msg |-> NoMsg, err |-> "none"]
    /\ UNCHANGED <<pc, startup, handler, policy, worker, current_child, mailbox, nsent, ext_sent, programs,
                   seen_stopped, ext_after_exit, ext_starts, exit_sends>>

\* One iteration of pgm_thread's loop: receive with timeout, poll the child,
\* run the arm of the state machine, store the child it returns; an error
\* ends the thread and drops the receiver, the sender and the child handle.
WorkerStep(p) ==
    /\ worker[p] = "running"
    /\ LET rcv == recv_timeout(mailbox[p])
           msg == rcv[1]
           rest == rcv[2]
       IN \E st \in get_child_status(current_child[p], procs[p]) :
            IF st.status = "Error"
            THEN /\ worker' = [worker EXCEPT ![p] = "poll_error"]
                 /\ current_child' = [current_child EXCEPT ![p] = 0]
                 /\ mailbox' = [mailbox EXCEPT ![p] = <<>>]
                 /\ last' = [kind |-> "step", p |-> p, status |-> "Error",
                             code |-> "none", msg |-> msg, err |-> "poll_error"]
                 /\ UNCHANGED <<procs, nsent, programs, seen_stopped, ext_after_exit,
                                exit_sends>>
            ELSE \E out \in run_state_machine(policy[p], st.status, st.code, msg.cmd,
                                              current_child[p], st.procs) :
                 /\ worker' = [worker EXCEPT ![p] = IF out.err = "none" THEN "running"
                                                                     ELSE out.err]
                 /\ current_child' = [current_child EXCEPT
                        ![p] = IF out.err = "none" THEN out.child ELSE 0]
                 /\ procs' = [procs EXCEPT ![p] = out.procs]
                 /\ mailbox' = [mailbox EXCEPT
                        ![p] = IF out.err = "none"
                               THEN rest \o SelfMsgs(out.sends, nsent[p])
                               ELSE <<>>]
                 /\ nsent' = [nsent EXCEPT ![p] = @ + Len(out.sends)]
                 /\ programs' = IF out.write = "none" THEN programs
                                ELSE update_pgm_status(programs, p, out.write)
                 /\ seen_stopped' = [seen_stopped EXCEPT
                        ![p] = IF out.write = "Stopped" THEN TRUE
                               ELSE IF out.spawned THEN FALSE ELSE @]
                 /\ ext_after_exit' = [ext_after_exit EXCEPT
                        ![p] = IF st.procs # procs[p] THEN FALSE ELSE @]
                 /\ exit_sends' = [exit_sends EXCEPT
                        ![p] = IF out.spawned THEN [policy |-> 0, resend |-> 0]
                               ELSE IF st.status = "Exited" /\ msg.cmd = "none"
                                    THEN [@ EXCEPT !.policy = @ + Len(out.sends)]
                               ELSE IF st.status = "Exited"
                                    THEN [@ EXCEPT !.resend = @ + Len(out.sends)]
                               ELSE @]
                 /\ last' = [kind |-> "step", p |-> p, status |-> st.status,
                             code |-> st.code, msg |-> msg, err |-> out.err]
    /\ UNCHANGED <<pc, startup, handler, policy, ext_sent, ext_starts>>

Next ==
    \/ \E p \in Programs, c \in CommandMsg : Send(p, c)
    \/ \E p \in Programs, i \in 1..MaxSpawns, code \in {"ok", "err"} : ChildExit(p, i, code)
    \/ \E p \in Programs : WorkerStep(p)

Spec == Init /\ [][Next]_vars

\* pgm_thread loops without blocking longer than WAIT_TIMEOUT, so a worker
\* that can take a step eventually takes one.
FairSpec == Spec /\ \A p \in Programs : WF_vars(WorkerStep(p))

\* One supervisor on its own: the workers share nothing but the registry,
\* where each writes its own entry, so what one worker eventually does is
\* decided by the commands and the child of that worker alone.
Solo == "sleep3"

SoloNext ==
    \/ \E c \in CommandMsg : Send(Solo, c)
    \/ \E i \in 1..MaxSpawns, code \in {"ok", "err"} : ChildExit(Solo, i, code)
    \/ WorkerStep(Solo)

SoloFairSpec == Init /\ [][SoloNext]_vars /\ WF_vars(WorkerStep(Solo))

\* ------------------------------------------------------------ HTTP front
\* The Command Gateway: for each configured program, the sender of its
\* mailbox (named here by the program whose mailbox it feeds).
channels == [p \in Programs |-> p]

\* The names a request path can carry: the configured programs and one that
\* is not configured.
Names == Programs \cup {"ghost"}

\* d.programs.contains_key(name): the registry holds an entry for name.
contains_key(reg, name) == name \in DOMAIN reg /\ reg[name] # "absent"

\* A handler that answers 200 for a name it does not know.
post_program_Unknown200(reg, wk, name) ==
    IF ~contains_key(reg, name) THEN (IF name \in DOMAIN wk THEN 404 ELSE 200)
    ELSE IF wk[name] = "running" THEN 200
    ELSE 400

\* A handler that ignores the result of the send.
post_program_SendIgnored(reg, wk, name) ==
    IF ~contains_key(reg, name) THEN 404 ELSE 200

\* The response of start_program, stop_program and restart_program: 404
\* unless the registry holds the name, else 200 if the send on the program's
\* channel succeeds and 400 if it fails (the receiver is dropped).
post_program(reg, wk, name) ==
    IF ~contains_key(reg, name) THEN 404
    ELSE IF wk[name] = "running" THEN 200
    ELSE 400

\* POST /programs/{name}/{start,stop,restart}: the command is enqueued
\* exactly when the response is 200.
HttpPost(name, c) ==
    /\ ext_sent < MaxSends
    /\ ext_sent' = ext_sent + 1
    /\ LET resp == post_program(programs, worker, name)
           id == IF name \in Programs THEN nsent[name] + 1 ELSE 0
       IN /\ IF resp = 200
             THEN /\ mailbox' = [mailbox EXCEPT
                          ![name] = send(@, [cmd |-> c, by |-> "ext", id |-> id])]
                  /\ nsent' = [nsent EXCEPT ![name] = @ + 1]
                  /\ ext_after_exit' = [ext_after_exit EXCEPT
                          ![name] = @ \/ c \in {"Start", "Restart"}]
                  /\ ext_starts' = [ext_starts EXCEPT
                          ![name] = IF c \in {"Start", "Restart"} THEN @ + 1 ELSE @]
             ELSE UNCHANGED <<mailbox, nsent, ext_after_exit, ext_starts>>
          /\ last' = [kind |-> "http", p |-> name, status |-> "none", code |-> "none",
                      msg |-> [cmd |-> c, by |-> "ext", id |-> id],
                      err |-> IF resp = 400 THEN "send_error" ELSE "none",
                      resp |-> resp]
    /\ UNCHANGED <<pc, startup, handler, policy, worker, current_child, procs, programs, seen_stopped,
                   exit_sends>>

\* GET /programs/{name}: 404 unless the registry holds the name, else 200
\* with its status; the registry is only read.
get_program(name) ==
    /\ ext_sent < MaxSends
    /\ ext_sent' = ext_sent + 1
    /\ last' = [kind |-> "http_get", p |-> name, status |-> "none", code |-> "none",
                msg |-> NoMsg, err |-> "none",
                resp |-> IF contains_key(programs, name) THEN 200 ELSE 404,
                body |-> IF contains_key(programs, name) THEN programs[name] ELSE "none"]
    /\ UNCHANGED <<pc, startup, handler, policy, worker, current_child, procs, mailbox, nsent, programs,
                   seen_stopped, ext_after_exit, ext_starts, exit_sends>>

\* GET /programs: 200 with the status of every key of the registry.
get_programs ==
    /\ ext_sent < MaxSends
    /\ ext_sent' = ext_sent + 1
    /\ last' = [kind |-> "http_get", p |-> "all", status |-> "none", code |-> "none",
                msg |-> NoMsg, err |-> "none", resp |-> 200,
                body |-> {<<n, programs[n]>> : n \in {q \in Programs : contains_key(programs, q)}}]
    /\ UNCHANGED <<pc, startup, handler, policy, worker, current_child, procs, mailbox, nsent, programs,
                   seen_stopped, ext_after_exit, ext_starts, exit_sends>>

start_program(name) == HttpPost(name, "Start")

stop_program(name) == HttpPost(name, "Stop")

restart_program(name) == HttpPost(name, "Restart")

\* The supervisor with its HTTP front: commands arrive through the handlers
\* as well as from holders of a sender.
HttpNext ==
    \/ Next
    \/ \E name \in Names : start_program(name)
    \/ \E name \in Names : stop_program(name)
    \/ \E name \in Names : restart_program(name)
    \/ \E name \in Names : get_program(name)
    \/ get_programs

HttpSpec == Init /\ [][HttpNext]_vars

\* ------------------------------------------------------- the registry lock
\* The mutex around ApplicationState: a POST handler holds it from its
\* lock() to its return (the guard d lives to the end of the function); a
\* worker holds it only inside update_pgm_status.
lock == IF handler.pc = "idle" THEN "free" ELSE "handler"

\* What the steps of the handler leave alone besides mailboxes and counters.
HandlerFrame == <<pc, startup, policy, worker, current_child, procs, programs, seen_stopped,
                  exit_sends>>

\* let d = data.app_state.lock().unwrap()
HandlerLock(name, c) ==
    /\ lock = "free"
    /\ ext_sent < MaxSends
    /\ ext_sent' = ext_sent + 1
    /\ handler' = [pc |-> "locked", name |-> name, cmd |-> c]
    /\ last' = [kind |-> "lock", p |-> name, status |-> "none", code |-> "none",
                msg |-> NoMsg, err |-> "none"]
    /\ UNCHANGED <<HandlerFrame, mailbox, nsent, ext_after_exit, ext_starts>>

\* The existence check fails: 404 is returned and the guard dropped.
HandlerNotFound ==
    /\ handler.pc = "locked"
    /\ ~contains_key(programs, handler.name)
    /\ handler' = Idle
    /\ last' = [kind |-> "http", p |-> handler.name, status |-> "none",
                code |-> "none", msg |-> NoMsg, err |-> "none", resp |-> 404]
    /\ UNCHANGED <<HandlerFrame, mailbox, nsent, ext_after_exit, ext_starts, ext_sent>>

\* The existence check passes: tx.send(..) on the channel of the program,
\* with the guard still held.
HandlerSend ==
    /\ handler.pc = "locked"
    /\ contains_key(programs, handler.name)
    /\ LET name == handler.name
           ok == worker[name] = "running"
           m == [cmd |-> handler.cmd, by |-> "ext", id |-> nsent[name] + 1]
       IN /\ IF ok
             THEN /\ mailbox' = [mailbox EXCEPT ![name] = send(@, m)]
                  /\ nsent' = [nsent EXCEPT ![name] = @ + 1]
                  /\ ext_after_exit' = [ext_after_exit EXCEPT
                          ![name] = @ \/ handler.cmd \in {"Start", "Restart"}]
                  /\ ext_starts' = [ext_starts EXCEPT
                          ![name] = IF handler.cmd \in {"Start", "Restart"} THEN @ + 1 ELSE @]
             ELSE UNCHANGED <<mailbox, nsent, ext_after_exit, ext_starts>>
          /\ handler' = [handler EXCEPT !.pc = IF ok THEN "sent" ELSE "send_failed"]
          /\ last' = [kind |-> "handler_send", p |-> name, status |-> "none",
                      code |-> "none", msg |-> m,
                      err |-> IF ok THEN "none" ELSE "send_error"]
    /\ UNCHANGED <<HandlerFrame, ext_sent>>

\* A handler that returns with the guard leaked: the lock is never released.
HandlerReturn_KeepsGuard ==
    /\ handler.pc \in {"sent", "send_failed"}
    /\ handler' = [handler EXCEPT !.pc = "returned"]
    /\ last' = [kind |-> "http", p |-> handler.name, status |-> "none",
                code |-> "none", msg |-> NoMsg,
                err |-> IF handler.pc = "sent" THEN "none" ELSE "send_error",
                resp |-> IF handler.pc = "sent" THEN 200 ELSE 400]
    /\ UNCHANGED <<HandlerFrame, mailbox, nsent, ext_after_exit, ext_starts, ext_sent>>

\* The handler returns its response, which drops the guard.
HandlerReturn ==
    /\ handler.pc \in {"sent", "send_failed"}
    /\ handler' = Idle
    /\ last' = [kind |-> "http", p |-> handler.name, status |-> "none",
                code |-> "none", msg |-> NoMsg,
                err |-> IF handler.pc = "sent" THEN "none" ELSE "send_error",
                resp |-> IF handler.pc = "sent" THEN 200 ELSE 400]
    /\ UNCHANGED <<HandlerFrame, mailbox, nsent, ext_after_exit, ext_starts, ext_sent>>

\* The step recorded in l calls update_pgm_status.
Writes(l) ==
    /\ l.kind = "step"
    /\ \/ l.status = "NoChild" /\ l.msg.cmd = "Start"
       \/ l.status = "Alive" /\ l.msg.cmd = "Stop" /\ l.err = "none"
       \/ l.status = "Exited" /\ l.msg.cmd = "none"

\* A step of the worker next to the handler: a step that writes the
\* registry waits for the lock.
LockedWorkerStep(p) ==
    /\ WorkerStep(p)
    /\ Writes(last') => lock = "free"

\* The supervisor with a POST handler that takes its steps one by one.
LockNext ==
    \/ \E p \in Programs, c \in CommandMsg : Send(p, c)
    \/ \E p \in Programs, i \in 1..MaxSpawns, code \in {"ok", "err"} : ChildExit(p, i, code)
    \/ \E p \in Programs : LockedWorkerStep(p)
    \/ \E name \in Names, c \in CommandMsg : HandlerLock(name, c)
    \/ HandlerNotFound
    \/ HandlerSend
    \/ HandlerReturn

LockSpec == Init /\ [][LockNext]_vars

\* One supervisor next to the handler.
SoloLockNext ==
    \/ \E c \in CommandMsg : Send(Solo, c)
    \/ \E i \in 1..MaxSpawns, code \in {"ok", "err"} : ChildExit(Solo, i, code)
    \/ LockedWorkerStep(Solo)
    \/ \E name \in Names, c \in CommandMsg : HandlerLock(name, c)
    \/ HandlerNotFound
    \/ HandlerSend
    \/ HandlerReturn

\* The handler runs straight through once it holds the guard, and the
\* worker's loop never blocks longer than WAIT_TIMEOUT outside the lock.
LockFairSpec ==
    /\ Init /\ [][SoloLockNext]_vars
    /\ WF_vars(LockedWorkerStep(Solo))
    /\ WF_vars(HandlerNotFound) /\ WF_vars(HandlerSend) /\ WF_vars(HandlerReturn)

\* -------------------------------------------------- start_program_threads
\* The configurations start_program_threads may be called with: sequences of
\* program configurations, told apart by their names.
Configs == UNION {[1..n -> Programs] : n \in 0..MaxConfigs}

\* What the loop leaves alone: no worker has run yet.
StartupFrame == <<policy, worker, current_child, procs, mailbox, nsent, ext_sent,
                  programs, seen_stopped, ext_after_exit, ext_starts, exit_sends, handler, pc>>

\* The call: handles and send_channels are empty.
StartupInit ==
    /\ policy \in [Programs -> RestartPolicy]
    /\ worker = [p \in Programs |-> "running"]
    /\ current_child = [p \in Programs |-> 0]
    /\ procs = [p \in Programs |-> <<>>]
    /\ mailbox = [p \in Programs |-> <<>>]
    /\ nsent = [p \in Programs |-> 0]
    /\ ext_sent = 0
    /\ programs = [p \in Programs |-> "absent"]
    /\ seen_stopped = [p \in Programs |-> FALSE]
    /\ ext_after_exit = [p \in Programs |-> FALSE]
    /\ ext_starts = [p \in Programs |-> 0]
    /\ exit_sends = [p \in Programs |-> [policy |-> 0, resend |-> 0]]
    /\ last = [kind |-> "init", p |-> "none", status |-> "none", code |-> "none",
               msg |-> NoMsg, err |-> "none"]
    /\ handler = Idle
    /\ pc = [p \in Programs |-> AtLoop]
    /\ startup \in {[app_config |-> cfg, i |-> 1, pc |-> "loop", handles |-> <<>>,
                     send_channels |-> NoChannels] : cfg \in Configs}

\* HashMap::insert: the value under name is replaced.
insert(map, name, tx) == [map EXCEPT ![name] = tx]

\* One iteration of the loop: create the channel, spawn the thread bound to
\* its receiver, insert the sender under the program's name.
StartThread ==
    /\ startup.pc = "loop"
    /\ startup.i <= Len(startup.app_config)
    /\ LET program == startup.app_config[startup.i]
       IN startup' = [startup EXCEPT
                        !.handles = Append(@, [name |-> program, rx |-> startup.i]),
                        !.send_channels = insert(@, program, startup.i),
                        !.i = @ + 1]
    /\ last' = [kind |-> "start_thread", p |-> startup.app_config[startup.i],
                status |-> "none", code |-> "none", msg |-> NoMsg, err |-> "none"]
    /\ UNCHANGED StartupFrame

\* thread::Builder::spawn fails: ProgramThreadStartError is returned and the
\* handles and senders collected so far are dropped.
StartThreadFails ==
    /\ startup.pc = "loop"
    /\ startup.i <= Len(startup.app_config)
    /\ startup' = [startup EXCEPT !.pc = "error", !.handles = <<>>,
                                  !.send_channels = NoChannels]
    /\ last' = [kind |-> "start_thread", p |-> startup.app_config[startup.i],
                status |-> "none", code |-> "none", msg |-> NoMsg,
                err |-> "thread_start_error"]
    /\ UNCHANGED StartupFrame

\* Ok((handles, send_channels))
StartReturn ==
    /\ startup.pc = "loop"
    /\ startup.i > Len(startup.app_config)
    /\ startup' = [startup EXCEPT !.pc = "done"]
    /\ last' = [kind |-> "start_return", p |-> "none", status |-> "none",
                code |-> "none", msg |-> NoMsg, err |-> "none"]
    /\ UNCHANGED StartupFrame

StartupNext == StartThread \/ StartThreadFails \/ StartReturn

StartupSpec == StartupInit /\ [][StartupNext]_vars

\* ------------------------------------------- Restart followed by Stop
\* A new child of p is running and held by its worker.
HoldsLiveChild(p) ==
    current_child[p] # 0 /\ procs[p][current_child[p]] = "alive"

\* The state of one supervisor after an external Start was consumed with no
\* child and the spawn succeeded: the first child runs and the entry is
\* Running. The commands enqueued externally are counted from here.
AliveInit ==
    /\ policy \in [Programs -> RestartPolicy]
    /\ worker = [p \in Programs |-> "running"]
    /\ current_child = [p \in Programs |-> IF p = Solo THEN 1 ELSE 0]
    /\ procs = [p \in Programs |-> IF p = Solo THEN <<"alive">> ELSE <<>>]
    /\ mailbox = [p \in Programs |-> <<>>]
    /\ nsent = [p \in Programs |-> IF p = Solo THEN 1 ELSE 0]
    /\ ext_sent = 0
    /\ programs = [p \in Programs |-> IF p = Solo THEN "Running" ELSE "absent"]
    /\ seen_stopped = [p \in Programs |-> FALSE]
    /\ ext_after_exit = [p \in Programs |-> p = Solo]
    /\ ext_starts = [p \in Programs |-> IF p = Solo THEN 1 ELSE 0]
    /\ exit_sends = [p \in Programs |-> [policy |-> 0, resend |-> 0]]
    /\ last = [kind |-> "step", p |-> Solo, status |-> "NoChild", code |-> "none",
               msg |-> [cmd |-> "Start", by |-> "ext", id |-> 1], err |-> "none"]
    /\ handler = Idle
    /\ startup = Started
    /\ pc = [p \in Programs |-> AtLoop]

\* The operator enqueues Restart while the child is alive.
SendRestart ==
    /\ ext_sent = 0
    /\ HoldsLiveChild(Solo)
    /\ Send(Solo, "Restart")

\* The operator then enqueues Stop, the child being still alive.
SendStop ==
    /\ ext_sent = 1
    /\ HoldsLiveChild(Solo)
    /\ Send(Solo, "Stop")

RestartStopNext ==
    \/ SendRestart
    \/ SendStop
    \/ \E i \in 1..MaxSpawns, code \in {"ok", "err"} : ChildExit(Solo, i, code)
    \/ WorkerStep(Solo)

RestartStopSpec == AliveInit /\ [][RestartStopNext]_vars

\* --------------------------------------- the spawning step, in two parts
\* (NoChild, Start), first statement: update_pgm_status(.., Running). The
\* Start has been received and the poll has answered NoChild.
StartWrite(p) ==
    /\ worker[p] = "running"
    /\ pc[p].at = "loop"
    /\ current_child[p] = 0
    /\ recv_timeout(mailbox[p])[1].cmd = "Start"
    /\ \E out \in NoChild_Start(current_child[p], procs[p]) :
            /\ out.write # "none"
            /\ programs' = update_pgm_status(programs, p, out.write)
    /\ mailbox' = [mailbox EXCEPT ![p] = recv_timeout(@)[2]]
    /\ pc' = [pc EXCEPT ![p] = [at |-> "spawn", msg |-> recv_timeout(mailbox[p])[1]]]
    /\ last' = [kind |-> "write", p |-> p, status |-> "NoChild", code |-> "none",
                msg |-> recv_timeout(mailbox[p])[1], err |-> "none"]
    /\ UNCHANGED <<startup, handler, policy, worker, current_child, procs, nsent,
                   ext_sent, seen_stopped, ext_after_exit, ext_starts, exit_sends>>

\* (NoChild, Start), second statement: Some(start_child_program(p)?), and
\* pgm_thread storing the child or returning the error.
StartSpawn(p) ==
    /\ pc[p].at = "spawn"
    /\ \E out \in NoChild_Start(current_child[p], procs[p]) :
            /\ worker' = [worker EXCEPT ![p] = IF out.err = "none" THEN "running"
                                                                ELSE out.err]
            /\ current_child' = [current_child EXCEPT
                    ![p] = IF out.err = "none" THEN out.child ELSE 0]
            /\ procs' = [procs EXCEPT ![p] = out.procs]
            /\ mailbox' = [mailbox EXCEPT ![p] = IF out.err = "none" THEN @ ELSE <<>>]
            /\ seen_stopped' = [seen_stopped EXCEPT ![p] = IF out.spawned THEN FALSE ELSE @]
            /\ exit_sends' = [exit_sends EXCEPT
                    ![p] = IF out.spawned THEN [policy |-> 0, resend |-> 0] ELSE @]
            /\ last' = [kind |-> "step", p |-> p, status |-> "NoChild", code |-> "none",
                        msg |-> pc[p].msg, err |-> out.err]
    /\ pc' = [pc EXCEPT ![p] = AtLoop]
    /\ UNCHANGED <<startup, handler, policy, nsent, ext_sent, programs, ext_after_exit, ext_starts>>

\* Every other arm, in one piece.
SplitWorkerStep(p) ==
    /\ pc[p].at = "loop"
    /\ WorkerStep(p)
    /\ ~(last'.status = "NoChild" /\ last'.msg.cmd = "Start")

SplitNext ==
    \/ \E c \in CommandMsg : Send(Solo, c)
    \/ \E i \in 1..MaxSpawns, code \in {"ok", "err"} : ChildExit(Solo, i, code)
    \/ SplitWorkerStep(Solo)
    \/ StartWrite(Solo)
    \/ StartSpawn(Solo)

SplitSpec == Init /\ [][SplitNext]_vars

\* ------------------------------------------------------------- properties
Range(q) == {q[i] : i \in 1..Len(q)}

\* The children of p that are running.
Live(p) == {i \in 1..Len(procs[p]) : procs[p][i] = "alive"}

\* The most recent action was a step of p's worker in (status, cmd).
StepIn(p, status, cmd) ==
    /\ last.kind = "step"
    /\ last.p = p
    /\ last.status = status
    /\ last.msg.cmd = cmd

\* C1: in every reachable state each worker holds at most one child handle,
\* and at most one of the children it spawned is live (spawned and neither
\* exited nor killed); while the worker runs, a live child is the one it holds.
C1_SingleChild ==
    \A p \in Programs :
        /\ current_child[p] \in 0..Len(procs[p])
        /\ Cardinality(Live(p)) <= 1
        /\ worker[p] = "running" => Live(p) \subseteq {current_child[p]}

\* C1 witness: a worker has spawned a second child, which is running.
C1_Witness ==
    \E p \in Programs : Len(procs[p]) = 2 /\ procs[p][2] = "alive"

\* C2: a step of a worker that spawns a child leaves the registry entry of
\* its program Running.
C2_SpawnSetsRunning ==
    [][\A p \in Programs :
          Len(procs'[p]) > Len(procs[p]) => programs'[p] = "Running"]_vars

\* C2 witness: the state right after a (NoChild, Start) step that spawned.
C2_Witness ==
    \E p \in Programs :
        /\ StepIn(p, "NoChild", "Start")
        /\ last.err = "none"
        /\ current_child[p] = Len(procs[p])
        /\ procs[p][current_child[p]] = "alive"

\* C3 as stated: whenever a worker spawns again, after the step that killed
\* the previous child or observed its exit, the registry entry has been
\* Stopped at some point since the previous spawn.
C3_StoppedBeforeRespawn ==
    [][\A p \in Programs :
          (Len(procs'[p]) > Len(procs[p]) /\ Len(procs[p]) > 0) => seen_stopped[p]]_vars

\* C3 amended: after a step that kills the child (Alive, Stop) or observes
\* the exit with no command (Exited, none), the registry entry is Stopped.
C3_StoppedAfterKillOrPolicy ==
    \A p \in Programs :
        (last.err = "none" /\ (StepIn(p, "Alive", "Stop") \/ StepIn(p, "Exited", "none")))
            => programs[p] = "Stopped"

\* C3 witness: the state right after an exit was observed with no command.
C3_Witness ==
    \E p \in Programs : StepIn(p, "Exited", "none") /\ programs[p] = "Stopped"

\* C4: the command a worker consumes is older than every command of the same
\* sender still in its mailbox, and the mailbox holds commands in the order
\* they were enqueued.
C4_Fifo ==
    \A p \in Programs :
        /\ \A i, j \in 1..Len(mailbox[p]) : i < j => mailbox[p][i].id < mailbox[p][j].id
        /\ (last.kind = "step" /\ last.p = p /\ last.msg # NoMsg) =>
              \A m \in Range(mailbox[p]) : m.by = last.msg.by => m.id > last.msg.id

\* C4 witness: a worker has consumed a command it sent itself while an
\* external command waits in front of another command the worker sent.
C4_Witness ==
    \E p \in Programs :
        /\ last.kind = "step" /\ last.p = p /\ last.msg.by = "self"
        /\ Len(mailbox[p]) >= 2
        /\ mailbox[p][1].by = "ext"
        /\ mailbox[p][Len(mailbox[p])].by = "self"

\* C5: under Always, a step that consumes Start while the child is alive
\* spawns nothing, kills nothing, writes no status and enqueues nothing.
C5_StartWhileAliveIsNoop ==
    [][\A p \in Programs :
          (/\ policy[p] = "Always"
           /\ last'.kind = "step" /\ last'.p = p
           /\ last'.status = "Alive" /\ last'.msg.cmd = "Start")
          => /\ procs'[p] = procs[p]
             /\ current_child'[p] = current_child[p]
             /\ programs' = programs
             /\ mailbox'[p] = Tail(mailbox[p])
             /\ worker'[p] = "running"]_vars

\* C5 witness: under Always a Start was consumed with the child alive.
C5_Witness ==
    \E p \in Programs :
        /\ policy[p] = "Always"
        /\ StepIn(p, "Alive", "Start")
        /\ current_child[p] = 1 /\ procs[p] = <<"alive">>

\* No Start and no Restart waits in the mailbox q.
NoStartRestart(q) == \A m \in Range(q) : m.cmd = "Stop"

\* The child p's worker spawned last.
LastChild(p) == procs[p][Len(procs[p])]

\* C6 as stated: under Never, a worker spawns again after the exit of its
\* child was observed only if a Start or Restart was enqueued externally
\* after that exit was first observed.
C6_RespawnOnlyAfterLaterCommand ==
    [][\A p \in Programs :
          (/\ policy[p] = "Never"
           /\ Len(procs'[p]) > Len(procs[p])
           /\ Len(procs[p]) > 0
           /\ LastChild(p) \in Reaped)
          => ext_after_exit[p]]_vars

\* C6 amended: under Never, a step taken while no Start and no Restart waits
\* in the mailbox spawns nothing and leaves none waiting: the policy itself
\* never restarts, a spawn always consumes a pending Start.
C6_NeverSpawnsOnlyOnPendingStart ==
    [][\A p \in Programs :
          (/\ policy[p] = "Never"
           /\ last'.kind = "step" /\ last'.p = p
           /\ NoStartRestart(mailbox[p]))
          => /\ Len(procs'[p]) = Len(procs[p])
             /\ NoStartRestart(mailbox'[p])]_vars

\* C6 witness: under Never the exit was observed with an empty mailbox, and
\* the worker is left idle holding the exited child.
C6_Witness ==
    \E p \in Programs :
        /\ policy[p] = "Never"
        /\ StepIn(p, "Exited", "none")
        /\ current_child[p] = 1 /\ procs[p][1] \in Reaped
        /\ mailbox[p] = <<>>

\* C7: under OnError, a step that observes an exit with success status while
\* no Start and no Restart waits in the mailbox spawns nothing and sends
\* nothing to the own mailbox.
C7_OnErrorSuccessNoRestart ==
    [][\A p \in Programs :
          (/\ policy[p] = "OnError"
           /\ last'.kind = "step" /\ last'.p = p
           /\ last'.status = "Exited" /\ last'.code = "ok"
           /\ NoStartRestart(mailbox[p]))
          => /\ Len(procs'[p]) = Len(procs[p])
             /\ nsent'[p] = nsent[p]
             /\ mailbox'[p] = IF mailbox[p] = <<>> THEN <<>> ELSE Tail(mailbox[p])]_vars

\* C7 witness: under OnError a successful exit was observed with no command.
C7_Witness ==
    \E p \in Programs :
        /\ policy[p] = "OnError"
        /\ StepIn(p, "Exited", "none")
        /\ last.code = "ok"
        /\ procs[p] = <<"reaped_ok">>
        /\ mailbox[p] = <<>>

C9_AlwaysRestarts ==
    /\ [][\A p \in Programs :
            (/\ policy[p] = "Always"
             /\ last'.kind = "step" /\ last'.p = p
             /\ last'.status = "Exited" /\ last'.msg = NoMsg)
            => /\ Len(procs'[p]) = Len(procs[p])
               /\ mailbox'[p] = <<[cmd |-> "Start", by |-> "self", id |-> nsent[p] + 1]>>]_vars
    /\ \A p \in Programs :
          (policy[p] = "Always" /\ StepIn(p, "Exited", "none"))
             ~> (HoldsLiveChild(p) \/ worker[p] # "running" \/ ~CanSpawn)

\* C9 witness: under Always a second child runs after the first one exited
\* and was never stopped or restarted by a command.
C9_Witness ==
    \E p \in Programs :
        /\ policy[p] = "Always"
        /\ Len(procs[p]) = 2 /\ procs[p][1] \in Reaped /\ procs[p][2] = "alive"
        /\ ext_sent = 1
        /\ worker[p] = "running"

\* C10: after a step that consumes Stop with the child alive, the child is
\* killed, the worker holds no handle and the registry entry is Stopped.
C10_StopKillsClearsAndStops ==
    \A p \in Programs :
        StepIn(p, "Alive", "Stop")
        => /\ LastChild(p) = "killed"
           /\ current_child[p] = 0
           /\ programs[p] = "Stopped"

\* C11: under Always, once a Stop has been consumed with the child alive,
\* the worker spawns only after a Start or Restart was enqueued externally
\* behind that Stop. Stated for the step that follows the Stop at once: what
\* was enqueued behind the Stop is then exactly what waits in the mailbox.
C11_NoSpawnAfterStopWithoutExternalStart ==
    [][\A p \in Programs :
          (/\ policy[p] = "Always"
           /\ StepIn(p, "Alive", "Stop") /\ last.err = "none"
           /\ Len(procs'[p]) > Len(procs[p]))
          => \E m \in Range(mailbox[p]) :
                m.by = "ext" /\ m.cmd \in {"Start", "Restart"}]_vars

\* The state a request can change: everything but the request count and the
\* record of the last action.
Supervisors == <<policy, worker, current_child, procs, mailbox, nsent, programs>>

\* C12: a start, stop or restart request for a name that is not a configured
\* program is answered 404 and changes no mailbox, no handle, no child and no
\* registry entry.
C12_UnknownNameNoEffect ==
    [][(last'.kind = "http" /\ last'.p \notin Programs)
          => (last'.resp = 404 /\ UNCHANGED Supervisors)]_vars

\* C12 witness: a request for "ghost" was answered 404 while a worker holds
\* a running child.
C12_Witness ==
    /\ last.kind = "http" /\ last.p = "ghost" /\ last.resp = 404
    /\ \E p \in Programs : HoldsLiveChild(p)

\* C13: a request for a configured program whose worker is running is
\* answered 200 and enqueues its command on the mailbox of that program, in
\* every reachable state; 404 is answered only for names that are not
\* configured.
C13_ConfiguredProgramPost200 ==
    [][/\ \A p \in Programs :
            (worker[p] = "running" /\ last'.kind = "http" /\ last'.p = p)
            => /\ last'.resp = 200
               /\ mailbox'[p] = Append(mailbox[p], last'.msg)
       /\ (last'.kind = "http" /\ last'.resp = 404) => last'.p \notin Programs]_vars

\* C14: once the worker of a program has terminated, a start, stop or restart
\* request for that program is answered 400 and changes no supervisor state
\* and no registry entry.
C14_TerminatedWorkerPost400 ==
    [][\A p \in Programs :
          (worker[p] # "running" /\ last'.kind = "http" /\ last'.p = p)
          => (last'.resp = 400 /\ UNCHANGED Supervisors)]_vars

\* C14 witness: a request was answered 400 for a program whose worker ended
\* on a poll error and left its child running.
C14_Witness ==
    /\ last.kind = "http" /\ last.resp = 400
    /\ last.p \in Programs
    /\ worker[last.p] = "poll_error"
    /\ LastChild(last.p) = "alive"

\* A step of p's worker in (status, cmd) leads from this state to the next.
StepTaken(p, status, cmd) ==
    /\ last'.kind = "step"
    /\ last'.p = p
    /\ last'.status = status
    /\ last'.msg.cmd = cmd

\* C15: every configured program eventually has a child spawned, whether or
\* not a command is ever enqueued.
C15_EveryProgramEventuallySpawned ==
    \A p \in Programs : <>(Len(procs[p]) > 0)

\* C16: the step that consumes Restart with the child alive kills that child,
\* spawns a new one, holds it, and leaves the registry entry Running.
C16_RestartKillsAndSpawnsInStep ==
    [][\A p \in Programs :
          StepTaken(p, "Alive", "Restart")
          => /\ procs'[p][current_child[p]] = "killed"
             /\ Len(procs'[p]) = Len(procs[p]) + 1
             /\ current_child'[p] = Len(procs'[p])
             /\ procs'[p][current_child'[p]] = "alive"
             /\ programs'[p] = "Running"]_vars

\* Restart has just been enqueued for p while its n-th child is alive, no
\* other command waits, and no further command can be enqueued.
RestartEnqueuedWhileAlive(p, n) ==
    /\ last.kind = "send" /\ last.p = p /\ last.msg.cmd = "Restart"
    /\ worker[p] = "running"
    /\ current_child[p] = n /\ HoldsLiveChild(p)
    /\ mailbox[p] = <<last.msg>>
    /\ ext_sent = MaxSends

\* The n-th child of p is gone, a later child is held and running and the
\* registry entry is Running.
Restarted(p, n) ==
    /\ n <= Len(procs[p])
    /\ procs[p][n] # "alive"
    /\ current_child[p] > n /\ HoldsLiveChild(p)
    /\ programs[p] = "Running"

\* C17: under Never, if Restart is enqueued while the child is alive and no
\* other command is, then eventually the old child is gone, a new child is
\* running and the registry entry is Running (unless the spawn or the poll
\* fails, or the spawn budget of the model is used up), with at most one
\* live child in every state.
C17_RestartEventuallyRespawns ==
    /\ [](\A p \in Programs : Cardinality(Live(p)) <= 1)
    /\ \A p \in Programs : \A n \in 1..MaxSpawns :
          (policy[p] = "Never" /\ RestartEnqueuedWhileAlive(p, n))
             ~> (\/ Restarted(p, n)
                 \/ worker[p] \in {"spawn_error", "poll_error"}
                 \/ ~CanSpawn)

\* C18: the step that consumes Stop with the child exited leaves the handle
\* absent and the registry entry Stopped, and enqueues nothing.
C18_StopInExitedClearsAndStops ==
    [][\A p \in Programs :
          StepTaken(p, "Exited", "Stop")
          => /\ current_child'[p] = 0
             /\ programs'[p] = "Stopped"
             /\ nsent'[p] = nsent[p]]_vars

\* C19: the step that observes the exit with no command leaves the registry
\* entry Stopped and the handle absent, under every restart policy.
C19_ExitObservedClearsHandle ==
    [][\A p \in Programs :
          StepTaken(p, "Exited", "none")
          => /\ programs'[p] = "Stopped"
             /\ current_child'[p] = 0]_vars

\* C20: the step that consumes Start or Restart with the child exited spawns
\* a new child, holds it, and leaves the registry entry Running.
C20_StartInExitedSpawnsInStep ==
    [][\A p \in Programs : \A c \in {"Start", "Restart"} :
          StepTaken(p, "Exited", c)
          => /\ Len(procs'[p]) = Len(procs[p]) + 1
             /\ current_child'[p] = Len(procs'[p])
             /\ procs'[p][current_child'[p]] = "alive"
             /\ programs'[p] = "Running"]_vars

\* C21: the step that consumes Stop or Restart with no child spawns nothing,
\* enqueues nothing and leaves the handle, the registry and the worker as
\* they were; only the command is gone from the mailbox.
C21_StopRestartWithoutChildIsNoop ==
    [][\A p \in Programs : \A c \in {"Stop", "Restart"} :
          StepTaken(p, "NoChild", c)
          => /\ procs' = procs
             /\ current_child' = current_child
             /\ programs' = programs
             /\ nsent' = nsent
             /\ mailbox'[p] = Tail(mailbox[p])
             /\ worker' = worker]_vars

\* C21 witness: a Restart was consumed with no child while a Start waits
\* behind it, and nothing was spawned.
C21_Witness ==
    \E p \in Programs :
        /\ StepIn(p, "NoChild", "Restart")
        /\ procs[p] = <<>> /\ current_child[p] = 0
        /\ programs[p] = "absent"
        /\ Len(mailbox[p]) = 1 /\ mailbox[p][1].cmd = "Start"

\* The policy of p restarts on the exit of the child p spawned last.
PolicyRestarts(p) ==
    \/ policy[p] = "Always"
    \/ policy[p] = "OnError" /\ LastChild(p) = "reaped_err"

\* C22: when the policy has enqueued a Start for an observed exit and a Stop
\* of the operator, enqueued after that observation, has been consumed with
\* that Start next in the mailbox, the step that consumes the Start spawns
\* no child.
C22_StopCancelsPolicyRestart ==
    [][\A p \in Programs :
          (/\ last.kind = "step" /\ last.p = p
           /\ last.msg.cmd = "Stop" /\ last.msg.by = "ext"
           /\ Len(procs[p]) > 0 /\ LastChild(p) \in Reaped
           /\ PolicyRestarts(p)
           /\ exit_sends[p].policy = 1
           /\ mailbox[p] # <<>>
           /\ Head(mailbox[p]).cmd = "Start" /\ Head(mailbox[p]).by = "self")
          => Len(procs'[p]) = Len(procs[p])]_vars

\* What the worker of q owns: its state, handle, children, mailbox and
\* registry entry.
Owned(q) == <<worker[q], current_child[q], procs[q], mailbox[q], nsent[q], programs[q]>>

\* C23: a step in which the spawn or the poll fails (a Start consumed with
\* no child that leaves no child, a poll that reports an error) ends the
\* worker of that program with that error, for good, and changes nothing
\* that another program's worker owns.
C23_SpawnOrPollFailureEndsOwnWorker ==
    [][\A p \in Programs :
          /\ (last'.kind = "step" /\ last'.p = p
              /\ last'.err \in {"spawn_error", "poll_error"})
             => /\ worker'[p] = last'.err
                /\ \A q \in Programs \ {p} : Owned(q)' = Owned(q)
          /\ (StepTaken(p, "NoChild", "Start") /\ Len(procs'[p]) = Len(procs[p]))
             => worker'[p] = "spawn_error"
          /\ (last'.kind = "step" /\ last'.p = p /\ last'.status = "Error")
             => worker'[p] = "poll_error"
          /\ worker[p] # "running" => worker'[p] = worker[p]]_vars

\* C23 witness: the spawn of one program failed while the worker of the
\* other holds a running child.
C23_Witness ==
    \E p \in Programs : \E q \in Programs \ {p} :
        /\ last.kind = "step" /\ last.p = p /\ last.err = "spawn_error"
        /\ worker[p] = "spawn_error"
        /\ worker[q] = "running" /\ HoldsLiveChild(q)

\* C24: after a step in which killing the child fails, the worker is still
\* running.
C24_KillFailureNotFatal ==
    \A p \in Programs :
        (StepIn(p, "Alive", "Stop") /\ last.err = "kill_error")
        => worker[p] = "running"

\* The keys of the registry's program-status map.
Keys(reg) == {n \in DOMAIN reg : reg[n] # "absent"}

\* C25 as stated: in every reachable state the keys of the registry are
\* exactly the configured program names.
C25_KeysAreConfiguredNames == Keys(programs) = Programs

\* C25 amended: the keys of the registry are configured program names; a
\* program has a key exactly when its worker has consumed a Start with no
\* child (it has spawned, or its first spawn failed), and a key is never
\* removed.
C25_KeysAreStartedPrograms ==
    /\ [](/\ Keys(programs) \subseteq Programs
          /\ \A p \in Programs :
                p \in Keys(programs) <=> (procs[p] # <<>> \/ worker[p] = "spawn_error"))
    /\ [][Keys(programs) \subseteq Keys(programs')]_vars

\* C25 witness: one program has stopped and keeps its key while the other
\* has never been started and has none.
C25_Witness ==
    \E p \in Programs : \E q \in Programs \ {p} :
        /\ programs[p] = "Stopped"
        /\ programs[q] = "absent"
        /\ worker[q] = "running"

\* C26: a registry entry changes only in a step of the worker of its own
\* program: no handler (GET or POST), no sender and no child changes the
\* registry, and a worker's step leaves every other program's entry alone.
C26_RegistryWrittenByOwnWorkerOnly ==
    [][\A q \in Programs :
          programs'[q] # programs[q] => (last'.kind = "step" /\ last'.p = q)]_vars

\* C26 witness: a GET for one program read its entry Running after its
\* worker wrote it, while the other program has no entry.
C26_Witness ==
    \E p \in Programs : \E q \in Programs \ {p} :
        /\ last.kind = "http_get" /\ last.p = p
        /\ last.resp = 200 /\ last.body = "Running"
        /\ programs[q] = "absent"

\* C27: a step the handler takes while it holds the registry lock sends
\* nothing: it changes no mailbox and no send count.
C27_NoSendUnderLock ==
    [][(lock = "handler" /\ handler' # handler) => UNCHANGED <<mailbox, nsent>>]_vars

\* The n-th child of p has exited and its worker, running, holds it and has
\* not polled it since.
ExitUnobserved(p, n) ==
    /\ worker[p] = "running"
    /\ current_child[p] = n
    /\ n \in 1..Len(procs[p])
    /\ procs[p][n] \in {"exited_ok", "exited_err"}

\* C28 as stated: if a child held by a running worker exits, the worker
\* eventually takes a step whose derived state is Exited for that child,
\* whether or not a command is ever enqueued.
C28_ExitEventuallyObserved ==
    \A p \in Programs : \A n \in 1..MaxSpawns :
        ExitUnobserved(p, n) ~> (n <= Len(procs[p]) /\ procs[p][n] \in Reaped)

\* C28 amended: the next step of the worker finds the exited child Exited
\* and collects its status, unless the poll itself fails, which ends the
\* worker; and the worker eventually takes that step, whether or not a
\* command is ever enqueued.
C28_ExitObservedUnlessPollFails ==
    /\ \A p \in Programs : \A n \in 1..MaxSpawns :
          ExitUnobserved(p, n)
             ~> \/ n <= Len(procs[p]) /\ procs[p][n] \in Reaped
                \/ worker[p] = "poll_error"
    /\ [][\A p \in Programs :
            (ExitUnobserved(p, current_child[p]) /\ last'.kind = "step" /\ last'.p = p)
            => \/ last'.status = "Exited" /\ procs'[p][current_child[p]] \in Reaped
               \/ last'.status = "Error" /\ worker'[p] = "poll_error"]_vars

\* C28 witness: the exit of a child was observed by a step that received no
\* command, with no command ever enqueued after the Start that spawned it.
C28_Witness ==
    \E p \in Programs :
        /\ StepIn(p, "Exited", "none")
        /\ ext_sent = 1
        /\ procs[p] = <<"reaped_err">>
        /\ current_child[p] = 1

\* C29: no panic branch is reached: a name that passes the existence check
\* of a handler has a sender in the Command Gateway, and a step whose derived
\* state is Alive, the only kind that kills, holds a handle to a child.
C29_NoPanicBranch ==
    /\ [](\A name \in Names :
            contains_key(programs, name) => name \in DOMAIN channels)
    /\ [][\A p \in Programs :
            (last'.kind = "step" /\ last'.p = p /\ last'.status = "Alive")
            => current_child[p] \in 1..Len(procs[p])]_vars

\* C29 witness: a Stop was consumed with the child alive and the kill ran on
\* the handle the worker held.
C29_Witness ==
    \E p \in Programs :
        /\ StepIn(p, "Alive", "Stop") /\ last.err = "none"
        /\ LastChild(p) = "killed"
        /\ current_child[p] = 0
        /\ contains_key(programs, p)

\* C30: a worker that has terminated leaves no child of its own running.
C30_TerminatedWorkerLeavesNoLiveChild ==
    \A p \in Programs : worker[p] # "running" => Live(p) = {}

\* ------------------------------------------- the action-list state machine
\* enum Action, with the argument of ApplyPolicy and UpdateStatus.
Action(a, arg) == [action |-> a, arg |-> arg]

\* state_machine_step: the list of actions for (status, msg).
state_machine_step(status, code, cmd) ==
    CASE status = "NoChild" /\ cmd = "none"  -> <<>>
      [] status = "NoChild" /\ cmd = "Start" ->
            <<Action("SpawnChild", "none"), Action("UpdateStatus", "Running")>>
      [] status = "NoChild" /\ cmd \in {"Restart", "Stop"} -> <<>>
      [] status = "Alive" /\ cmd = "none"    -> <<>>
      [] status = "Alive" /\ cmd = "Start"   -> <<>>
      [] status = "Alive" /\ cmd = "Stop"    ->
            <<Action("KillChild", "none"), Action("UpdateStatus", "Stopped"),
              Action("ResetChild", "none")>>
      [] status = "Alive" /\ cmd = "Restart" ->
            <<Action("KillChild", "none"), Action("SpawnChild", "none")>>
      [] status = "Exited" /\ cmd = "none"   -> <<Action("ApplyPolicy", code)>>
      [] status = "Exited" /\ cmd = "Stop"   -> <<>>
      [] status = "Exited" /\ cmd \in {"Start", "Restart"} ->
            <<Action("SpawnChild", "none"), Action("UpdateStatus", "Running")>>

\* run_action: one action applied to what the step has done so far; spawn
\* and kill may fail.
run_action(a, o, pol) ==
    CASE a.action = "ResetChild" -> {[o EXCEPT !.child = 0]}
      [] a.action = "SpawnChild" ->
            IF ~CanSpawn THEN {}
            ELSE {[o EXCEPT !.child = Len(o.procs) + 1,
                            !.procs = start_child_program(o.procs),
                            !.spawned = TRUE],
                  [o EXCEPT !.err = "spawn_error"]}
      [] a.action = "KillChild" ->
            {[o EXCEPT !.procs[o.child] = "killed", !.killed = TRUE],
             [o EXCEPT !.err = "kill_error"]}
      [] a.action = "ApplyPolicy" ->
            {[o EXCEPT !.sends = @ \o ApplyPolicy(pol, a.arg)]}
      [] a.action = "UpdateStatus" -> {[o EXCEPT !.write = a.arg]}

\* run_actions: the actions in order, stopping at the first error.
RECURSIVE run_actions(_, _, _)
run_actions(actions, o, pol) ==
    IF actions = <<>> THEN {o}
    ELSE UNION {IF o2.err # "none" THEN {o2}
                ELSE run_actions(Tail(actions), o2, pol)
                : o2 \in run_action(Head(actions), o, pol)}

\* One iteration of run_state_machine_with_effects after the poll.
run_state_machine_with_effects(pol, status, code, cmd, h, ps) ==
    run_actions(state_machine_step(status, code, cmd), Keep(h, ps), pol)

\* What the claim calls observable in a step: the handle it ends with, the
\* children spawned and killed, the registry write, the error returned.
Observable(o) ==
    [child |-> IF o.err = "none" THEN o.child ELSE 0, procs |-> o.procs,
     write |-> o.write, spawned |-> o.spawned, killed |-> o.killed, err |-> o.err]

\* C31: in every step the worker takes, the action-list machine run from the
\* same handle, children, policy and command has the same observable
\* outcomes as the fused machine (same spawns, kills, registry write, handle).
C31_TwoMachinesEquivalent ==
    [][\A p \in Programs :
        (last'.kind = "step" /\ last'.p = p /\ last'.status # "Error" /\ CanSpawn)
        => LET st == CHOOSE s \in get_child_status(current_child[p], procs[p]) :
                        s.status = last'.status
               fused == run_state_machine(policy[p], st.status, st.code,
                                          last'.msg.cmd, current_child[p], st.procs)
               listed == run_state_machine_with_effects(policy[p], st.status, st.code,
                                          last'.msg.cmd, current_child[p], st.procs)
           IN {Observable(o) : o \in fused} = {Observable(o) : o \in listed}]_vars

\* The commands at the back of q, from position n + 1 on.
Enqueued(q, n) == [i \in 1..(Len(q) - n) |-> [cmd |-> q[n + i].cmd, by |-> q[n + i].by]]

\* C32: a child is spawned only in a step in (NoChild, Start) and killed
\* only in a step in (Alive, Stop); a step that consumes Restart with the
\* child alive, or applies the policy to an exit, spawns and kills nothing
\* and only enqueues commands onto the own mailbox.
C32_SpawnAndKillEachInOneArm ==
    [][\A p \in Programs :
        /\ Len(procs'[p]) > Len(procs[p]) => StepTaken(p, "NoChild", "Start")
        /\ (\E i \in 1..Len(procs[p]) : procs[p][i] # "killed" /\ procs'[p][i] = "killed")
           => StepTaken(p, "Alive", "Stop")
        /\ (StepTaken(p, "Alive", "Restart") /\ worker'[p] = "running")
           => /\ procs'[p] = procs[p]
              /\ Enqueued(mailbox'[p], Len(mailbox[p]) - 1)
                    = <<[cmd |-> "Stop", by |-> "self"], [cmd |-> "Start", by |-> "self"]>>
        /\ StepTaken(p, "Exited", "none")
           => /\ Live(p)' = Live(p) /\ Len(procs'[p]) = Len(procs[p])
              /\ \A m \in Range(Enqueued(mailbox'[p], Len(mailbox[p]))) :
                    m = [cmd |-> "Start", by |-> "self"]]_vars

\* C32 witness: after an external Restart with the child alive, the old child
\* was killed and the new one spawned by the step that consumed the Start the
\* worker had enqueued itself.
C32_Witness ==
    \E p \in Programs :
        /\ StepIn(p, "NoChild", "Start") /\ last.msg.by = "self"
        /\ Len(procs[p]) = 2 /\ procs[p][1] = "killed" /\ procs[p][2] = "alive"
        /\ current_child[p] = 2

\* C33: when start_program_threads returns Ok, it has started one worker with
\* its own mailbox per configured program, and the Command Gateway holds under
\* the name of every started worker the sender of that worker's mailbox.
C33_GatewayReachesEveryWorker ==
    startup.pc = "done"
    => /\ Len(startup.handles) = Len(startup.app_config)
       /\ \A i \in 1..Len(startup.handles) :
            /\ startup.handles[i].name = startup.app_config[i]
            /\ startup.handles[i].rx = i
            /\ startup.send_channels[startup.handles[i].name] = startup.handles[i].rx

\* C34: Restart and then Stop were enqueued externally with the child alive
\* and nothing else was; once the worker has emptied its mailbox, no child of
\* its own having exited meanwhile, it holds no live child and the entry is
\* Stopped.
C34_StopAfterRestartWins ==
    (/\ ext_sent = 2
     /\ mailbox[Solo] = <<>>
     /\ worker[Solo] = "running"
     /\ \A i \in 1..Len(procs[Solo]) : procs[Solo][i] \in {"alive", "killed"})
    => /\ Live(Solo) = {}
       /\ current_child[Solo] = 0
       /\ programs[Solo] = "Stopped"

\* C35: in every reachable state, between the write and the spawn of a
\* spawning step included, a program whose entry is Stopped has no live child
\* held by its supervisor, and a program with a live child has the entry
\* Running.
C35_StoppedMeansNoLiveChild ==
    \A p \in Programs :
        /\ programs[p] = "Stopped" => ~HoldsLiveChild(p)
        /\ Live(p) # {} => programs[p] = "Running"

\* C35 witness: inside a spawning step that follows a Stop: Running is
\* written, the killed child is the last one and the new one not yet spawned.
C35_Witness ==
    \E p \in Programs :
        /\ pc[p].at = "spawn"
        /\ programs[p] = "Running"
        /\ Len(procs[p]) = 1 /\ procs[p][1] = "killed"
        /\ current_child[p] = 0

\* C36: in every reachable state a program whose entry is Running has its
\* worker running and holding a child handle.
C36_RunningMeansWorkerHoldsHandle ==
    \A p \in Programs :
        programs[p] = "Running" => (worker[p] = "running" /\ current_child[p] # 0)

\* C37: under the policy Never a supervisor has spawned at most as many
\* children as Start and Restart commands were enqueued externally onto its
\* mailbox: the commands it enqueues itself add no spawn of their own.
C37_NeverSpawnsAtMostExternalStarts ==
    \A p \in Programs :
        policy[p] = "Never" => Len(procs[p]) <= ext_starts[p]

\* C37 witness: under Never, a Start and a Restart were enqueued externally
\* and the second child was spawned on the Start the worker sent itself.
C37_Witness ==
    \E p \in Programs :
        /\ policy[p] = "Never"
        /\ StepIn(p, "NoChild", "Start") /\ last.msg.by = "self"
        /\ Len(procs[p]) = 2 /\ ext_starts[p] = 2

\* C38: while the only command ever enqueued externally is one initial Start
\* (or none yet), the mailbox of the supervisor never holds more than one
\* command, whatever the policy and however its children exit.
C38_SelfRestartsDoNotAccumulate ==
    (ext_sent <= 1 /\ ext_starts[Solo] = ext_sent) => Len(mailbox[Solo]) <= 1

\* C38 witness: after the initial Start alone, the first child has exited,
\* the policy has enqueued a Start, and that Start, consumed with the handle
\* still held, has been re-sent: it is the one command in the mailbox.
C38_Witness ==
    /\ ext_sent = 1 /\ ext_starts[Solo] = 1
    /\ StepIn(Solo, "Exited", "Start") /\ last.msg.by = "self"
    /\ Len(procs[Solo]) = 1 /\ procs[Solo][1] \in Reaped
    /\ Len(mailbox[Solo]) = 1 /\ mailbox[Solo][1].by = "self"

\* The next step of the worker of p writes the registry and the handler
\* holds the lock: the worker waits for it.
WorkerBlocked(p) ==
    /\ worker[p] = "running"
    /\ ENABLED WorkerStep(p)
    /\ ~ENABLED LockedWorkerStep(p)

\* C39: a handler that holds the lock can always take its next step, whatever
\* the other threads do, and so releases the lock; and a worker that waits for
\* the lock eventually writes the registry, unless it terminates first (or
\* may spawn no more).
C39_LockAlwaysReleased ==
    /\ [](handler.pc = "locked" => ENABLED (HandlerNotFound \/ HandlerSend))
    /\ [](handler.pc \in {"sent", "send_failed"} => ENABLED HandlerReturn)
    /\ [](lock = "handler" => handler.pc \in {"locked", "sent", "send_failed"})
    /\ (lock = "handler") ~> (lock = "free")
    /\ WorkerBlocked(Solo)
         ~> \/ last.kind = "step" /\ last.p = Solo /\ Writes(last)
            \/ worker[Solo] # "running"
            \/ ~CanSpawn

\* C39 witness: the handler has sent Start for a program whose child had
\* exited and has not returned yet; the worker has re-sent the Start and
\* cleared the handle, and its next step, which writes Running and spawns,
\* waits for the lock the handler holds.
C39_Witness ==
    /\ handler.pc = "sent" /\ handler.name = Solo
    /\ current_child[Solo] = 0 /\ CanSpawn
    /\ mailbox[Solo] # <<>> /\ Head(mailbox[Solo]).cmd = "Start"
    /\ WorkerBlocked(Solo)

====
